---- MODULE Spec2Model ----
(***************************************************************************)
(* A model of the Bitcoin transaction codec of src/src/lib.rs.             *)
(*                                                                         *)
(* Representation of the machine integers.  TLC's integers are 32 bits     *)
(* wide, so a u16/u32/u64 is kept as its little-endian sequence of 16-bit  *)
(* words (1, 2 and 4 words): <<65535, 65535, 0, 0>> is 0xFFFF_FFFF as a    *)
(* u64.  A byte is an integer in 0..255.  usize is 64 bits wide (a 64-bit  *)
(* target), so "as usize" of a u64 keeps all four words.  Small quantities *)
(* that the code holds in a usize and that never leave the range of a      *)
(* slice length (lengths, offsets, consumed counts) are plain integers.    *)
(*                                                                         *)
(* A Result is a record: Ok((value, consumed)), Err(error), or a panic     *)
(* (the thread unwinds; nothing is returned).                              *)
(***************************************************************************)
EXTENDS Integers, Sequences, FiniteSets, TLC

VARIABLES
    entity,     \* the type whose to_bytes / from_bytes is exercised
    x,          \* the value constructed by the caller (new)
    bytes,      \* the byte slice handed to from_bytes
    text,       \* the string handed to Txid's Deserialize
    pc,         \* where the caller / BitcoinTransaction::from_bytes stands
    result,     \* what from_bytes / deserialize returned
    version,    \* BitcoinTransaction::from_bytes: local `version`
    input_count,\* BitcoinTransaction::from_bytes: local `input_count`
    inputs,     \* BitcoinTransaction::from_bytes: local `inputs`
    offset      \* BitcoinTransaction::from_bytes: local `offset`

vars == <<entity, x, bytes, text, pc, result, version, input_count, inputs, offset>>

(***************************************************************************)
(* Bounds of the model.                                                    *)
(***************************************************************************)
\* the longest inputs vector of a constructed BitcoinTransaction
MaxInputs == 2
\* the most content bytes that follow a hand-made CompactSize prefix
MaxContent == 1

(***************************************************************************)
(* Machine integers.                                                       *)
(***************************************************************************)
\* a small natural (a literal, a length) as a u64
U64(n) == <<n % 65536, n \div 65536, 0, 0>>

\* a small natural as a u32
U32(n) == <<n % 65536, n \div 65536>>

\* `v as u64` of a u16 or u32: zero extension
AsU64(v) == [k \in 1..4 |-> IF k <= Len(v) THEN v[k] ELSE 0]

\* a < b on two integers of the same width
Lt(a, b) == \E k \in 1..Len(a) : a[k] < b[k] /\ \A j \in (k + 1)..Len(a) : a[j] = b[j]

\* a <= b on two integers of the same width
Le(a, b) == a = b \/ Lt(a, b)

\* a u64 known to be at most a slice length, as a plain integer
AsNat(v) == v[1] + 65536 * v[2]

\* to_le_bytes of a u16/u32/u64
to_le_bytes(v) ==
    [i \in 1..(2 * Len(v)) |->
        IF i % 2 = 1 THEN v[(i + 1) \div 2] % 256 ELSE v[i \div 2] \div 256]

\* u16/u32/u64::from_le_bytes of 2/4/8 bytes
from_le_bytes(b) == [k \in 1..(Len(b) \div 2) |-> b[2 * k - 1] + 256 * b[2 * k]]

\* a + b on usize: the wrapped sum and whether it overflowed
usize_add(a, b) ==
    LET s1 == a[1] + b[1]
        s2 == a[2] + b[2] + (s1 \div 65536)
        s3 == a[3] + b[3] + (s2 \div 65536)
        s4 == a[4] + b[4] + (s3 \div 65536)
    IN  [sum |-> <<s1 % 65536, s2 % 65536, s3 % 65536, s4 % 65536>>,
         overflow |-> s4 \div 65536 > 0]

(***************************************************************************)
(* Results and slices.                                                     *)
(***************************************************************************)
Ok(v, n) == [kind |-> "Ok", value |-> v, consumed |-> n]

Err(e) == [kind |-> "Err", err |-> e]

Panic(m) == [kind |-> "Panic", msg |-> m]

None == [kind |-> "None"]

\* bytes[a..b] for a <= b <= bytes.len()
Slice(b, from, to) == SubSeq(b, from + 1, to)

\* bytes[a..] for a <= bytes.len()
SliceFrom(b, from) == SubSeq(b, from + 1, Len(b))

(***************************************************************************)
(* CompactSize                                                             *)
(***************************************************************************)
CompactSize_new(value) == [value |-> value]

\* mutant: 253 itself written as a single byte (`<= 253` for `< 253`)
CompactSize_to_bytes_one_byte_253(self) ==
    IF Le(self.value, U64(253))
    THEN <<self.value[1] % 256>>
    ELSE IF Le(self.value, U64(65535))
    THEN <<253>> \o SubSeq(to_le_bytes(self.value), 1, 2)
    ELSE IF Le(self.value, <<65535, 65535, 0, 0>>)
    THEN <<254>> \o SubSeq(to_le_bytes(self.value), 1, 4)
    ELSE <<255>> \o to_le_bytes(self.value)

\* mutant: 65535 pushed to the 0xFE form (`< 0xFFFF` for `<= 0xFFFF`)
CompactSize_to_bytes_wide_65535(self) ==
    IF Lt(self.value, U64(253))
    THEN <<self.value[1] % 256>>
    ELSE IF Lt(self.value, U64(65535))
    THEN <<253>> \o SubSeq(to_le_bytes(self.value), 1, 2)
    ELSE IF Le(self.value, <<65535, 65535, 0, 0>>)
    THEN <<254>> \o SubSeq(to_le_bytes(self.value), 1, 4)
    ELSE <<255>> \o to_le_bytes(self.value)

CompactSize_to_bytes(self) ==
    IF Lt(self.value, U64(253))
    THEN <<self.value[1] % 256>>
    ELSE IF Le(self.value, U64(65535))
    THEN <<253>> \o SubSeq(to_le_bytes(self.value), 1, 2)
    ELSE IF Le(self.value, <<65535, 65535, 0, 0>>)
    THEN <<254>> \o SubSeq(to_le_bytes(self.value), 1, 4)
    ELSE <<255>> \o to_le_bytes(self.value)

\* mutant: a decoder that refuses a width wider than the value needs
CompactSize_from_bytes_canonical(b) ==
    IF Len(b) = 0 THEN Err("InsufficientBytes")
    ELSE LET prefix == b[1] IN
         IF prefix <= 252 THEN Ok(CompactSize_new(U64(prefix)), 1)
         ELSE IF prefix = 253
         THEN IF Len(b) < 3 THEN Err("InsufficientBytes")
              ELSE IF b[2] + 256 * b[3] < 253 THEN Err("InvalidFormat")
              ELSE Ok(CompactSize_new(AsU64(from_le_bytes(<<b[2], b[3]>>))), 3)
         ELSE IF prefix = 254
         THEN IF Len(b) < 5 THEN Err("InsufficientBytes")
              ELSE IF b[4] = 0 /\ b[5] = 0 THEN Err("InvalidFormat")
              ELSE Ok(CompactSize_new(AsU64(from_le_bytes(<<b[2], b[3], b[4], b[5]>>))), 5)
         ELSE IF Len(b) < 9 THEN Err("InsufficientBytes")
              ELSE IF b[6] = 0 /\ b[7] = 0 /\ b[8] = 0 /\ b[9] = 0 THEN Err("InvalidFormat")
              ELSE Ok(CompactSize_new(from_le_bytes(
                        <<b[2], b[3], b[4], b[5], b[6], b[7], b[8], b[9]>>)), 9)

CompactSize_from_bytes(b) ==
    IF Len(b) = 0 THEN Err("InsufficientBytes")
    ELSE LET prefix == b[1] IN
         IF prefix <= 252 THEN Ok(CompactSize_new(U64(prefix)), 1)
         ELSE IF prefix = 253
         THEN IF Len(b) < 3 THEN Err("InsufficientBytes")
              ELSE Ok(CompactSize_new(AsU64(from_le_bytes(<<b[2], b[3]>>))), 3)
         ELSE IF prefix = 254
         THEN IF Len(b) < 5 THEN Err("InsufficientBytes")
              ELSE Ok(CompactSize_new(AsU64(from_le_bytes(<<b[2], b[3], b[4], b[5]>>))), 5)
         ELSE IF Len(b) < 9 THEN Err("InsufficientBytes")
              ELSE Ok(CompactSize_new(from_le_bytes(
                        <<b[2], b[3], b[4], b[5], b[6], b[7], b[8], b[9]>>)), 9)

(***************************************************************************)
(* Txid: the hex text form (hex::encode / hex::decode of the hex crate)    *)
(***************************************************************************)
HexLower == <<"0", "1", "2", "3", "4", "5", "6", "7", "8", "9", "a", "b", "c", "d", "e", "f">>

HexUpper == <<"0", "1", "2", "3", "4", "5", "6", "7", "8", "9", "A", "B", "C", "D", "E", "F">>

\* hex::encode: two lowercase digits per byte, high nibble first, bytes in order
hex_encode(data) ==
    [i \in 1..(2 * Len(data)) |->
        IF i % 2 = 1 THEN HexLower[(data[(i + 1) \div 2] \div 16) + 1]
                     ELSE HexLower[(data[i \div 2] % 16) + 1]]

IsHexDigit(c) == \E v \in 1..16 : HexLower[v] = c \/ HexUpper[v] = c

HexVal(c) == (CHOOSE v \in 1..16 : HexLower[v] = c \/ HexUpper[v] = c) - 1

\* hex::decode: odd length and non-hex characters are errors; both cases accepted
hex_decode(s) ==
    IF Len(s) % 2 # 0 THEN Err("OddLength")
    ELSE IF \E i \in 1..Len(s) : ~IsHexDigit(s[i]) THEN Err("InvalidHexCharacter")
    ELSE Ok([k \in 1..(Len(s) \div 2) |-> 16 * HexVal(s[2 * k - 1]) + HexVal(s[2 * k])],
            Len(s))

Txid_serialize(self) == hex_encode(self)

\* mutant: the length of the decoded bytes is not checked
Txid_deserialize_any_length(hex_string) ==
    LET decoded == hex_decode(hex_string) IN
    IF decoded.kind = "Err" THEN Err("custom")
    ELSE Ok(decoded.value, Len(hex_string))

Txid_deserialize(hex_string) ==
    LET decoded == hex_decode(hex_string) IN
    IF decoded.kind = "Err" THEN Err("custom")
    ELSE IF Len(decoded.value) # 32 THEN Err("Invalid Txid length")
    ELSE Ok(decoded.value, Len(hex_string))

(***************************************************************************)
(* OutPoint                                                                *)
(***************************************************************************)
OutPoint_new(txid, vout) == [txid |-> txid, vout |-> vout]

OutPoint_to_bytes(self) == self.txid \o to_le_bytes(self.vout)

OutPoint_from_bytes(b) ==
    IF Len(b) < 36 THEN Err("InsufficientBytes")
    ELSE Ok(OutPoint_new(Slice(b, 0, 32), from_le_bytes(<<b[33], b[34], b[35], b[36]>>)), 36)

(***************************************************************************)
(* Script                                                                  *)
(***************************************************************************)
Script_new(b) == [bytes |-> b]

Script_to_bytes(self) ==
    CompactSize_to_bytes(CompactSize_new(U64(Len(self.bytes)))) \o self.bytes

\* mutant: the length check forgets the prefix (`bytes.len() < script_length`)
Script_from_bytes_check_without_prefix(b, overflow_checks) ==
    LET cs == CompactSize_from_bytes(b) IN
    IF cs.kind # "Ok" THEN cs
    ELSE LET prefix_size == cs.consumed
             script_length == cs.value.value
             end == usize_add(U64(prefix_size), script_length)
         IN  IF end.overflow /\ overflow_checks
             THEN Panic("attempt to add with overflow")
             ELSE IF Lt(U64(Len(b)), script_length) THEN Err("InsufficientBytes")
             ELSE IF prefix_size > AsNat(end.sum)
             THEN Panic("slice index starts after its end")
             ELSE IF AsNat(end.sum) > Len(b)
             THEN Panic("range end index out of range")
             ELSE Ok(Script_new(Slice(b, prefix_size, AsNat(end.sum))), AsNat(end.sum))

\* mutant: the slice must hold the script and nothing more (`!=` for `<`)
Script_from_bytes_exact_length(b, overflow_checks) ==
    LET cs == CompactSize_from_bytes(b) IN
    IF cs.kind # "Ok" THEN cs
    ELSE LET prefix_size == cs.consumed
             script_length == cs.value.value
             end == usize_add(U64(prefix_size), script_length)
         IN  IF end.overflow /\ overflow_checks
             THEN Panic("attempt to add with overflow")
             ELSE IF U64(Len(b)) # end.sum THEN Err("InsufficientBytes")
             ELSE IF prefix_size > AsNat(end.sum)
             THEN Panic("slice index starts after its end")
             ELSE Ok(Script_new(Slice(b, prefix_size, AsNat(end.sum))), AsNat(end.sum))

\* overflow_checks: the build traps on arithmetic overflow (debug profile) or
\* wraps (release profile)
Script_from_bytes(b, overflow_checks) ==
    LET cs == CompactSize_from_bytes(b) IN
    IF cs.kind # "Ok" THEN cs
    ELSE LET prefix_size == cs.consumed
             script_length == cs.value.value
             end == usize_add(U64(prefix_size), script_length)
         IN  IF end.overflow /\ overflow_checks
             THEN Panic("attempt to add with overflow")
             ELSE IF Lt(U64(Len(b)), end.sum) THEN Err("InsufficientBytes")
             ELSE IF prefix_size > AsNat(end.sum)
             THEN Panic("slice index starts after its end")
             ELSE Ok(Script_new(Slice(b, prefix_size, AsNat(end.sum))), AsNat(end.sum))

(***************************************************************************)
(* TransactionInput                                                        *)
(***************************************************************************)
TransactionInput_new(previous_output, script_sig, sequence) ==
    [previous_output |-> previous_output, script_sig |-> script_sig, sequence |-> sequence]

TransactionInput_to_bytes(self) ==
    OutPoint_to_bytes(self.previous_output)
        \o Script_to_bytes(self.script_sig)
        \o to_le_bytes(self.sequence)

\* mutant: the script's error is replaced (map_err) instead of passed on by `?`
TransactionInput_from_bytes_map_err(b, overflow_checks) ==
    LET op == OutPoint_from_bytes(b) IN
    IF op.kind # "Ok" THEN op
    ELSE LET outpoint_size == op.consumed
             sc == Script_from_bytes(SliceFrom(b, outpoint_size), overflow_checks)
         IN  IF sc.kind = "Err" THEN Err("InvalidFormat")
             ELSE IF sc.kind # "Ok" THEN sc
             ELSE LET sequence_start == outpoint_size + sc.consumed IN
                  IF Len(b) < sequence_start + 4 THEN Err("InsufficientBytes")
                  ELSE Ok(TransactionInput_new(
                              op.value, sc.value,
                              from_le_bytes(Slice(b, sequence_start, sequence_start + 4))),
                          sequence_start + 4)

TransactionInput_from_bytes(b, overflow_checks) ==
    LET op == OutPoint_from_bytes(b) IN
    IF op.kind # "Ok" THEN op
    ELSE LET outpoint_size == op.consumed
             sc == Script_from_bytes(SliceFrom(b, outpoint_size), overflow_checks)
         IN  IF sc.kind # "Ok" THEN sc
             ELSE LET sequence_start == outpoint_size + sc.consumed IN
                  IF Len(b) < sequence_start + 4 THEN Err("InsufficientBytes")
                  ELSE Ok(TransactionInput_new(
                              op.value, sc.value,
                              from_le_bytes(Slice(b, sequence_start, sequence_start + 4))),
                          sequence_start + 4)

(***************************************************************************)
(* BitcoinTransaction                                                      *)
(***************************************************************************)
BitcoinTransaction_new(v, ins, lock_time) ==
    [version |-> v, inputs |-> ins, lock_time |-> lock_time]

RECURSIVE ConcatInputs(_)
\* the loop of to_bytes: each input's bytes in order
ConcatInputs(ins) ==
    IF Len(ins) = 0 THEN <<>>
    ELSE TransactionInput_to_bytes(Head(ins)) \o ConcatInputs(Tail(ins))

BitcoinTransaction_to_bytes(self) ==
    to_le_bytes(self.version)
        \o CompactSize_to_bytes(CompactSize_new(U64(Len(self.inputs))))
        \o ConcatInputs(self.inputs)
        \o to_le_bytes(self.lock_time)

(***************************************************************************)
(* The values the caller constructs.                                       *)
(***************************************************************************)
Entities == {"CompactSize", "Txid", "OutPoint", "Script", "TransactionInput",
             "BitcoinTransaction"}

\* low words around the width boundaries, under each pattern of high words
U64Values ==
    {<<lo>> \o hi : lo \in {0, 1, 10, 252, 253, 254, 255, 256, 65526, 65527, 65535},
                    hi \in {<<0, 0, 0>>, <<1, 0, 0>>, <<65535, 0, 0>>, <<0, 1, 0>>,
                            <<65535, 65535, 65535>>}}

U32Values == {U32(0), U32(1), <<772, 258>>, <<65535, 65535>>}

Txids == {[i \in 1..32 |-> 0], [i \in 1..32 |-> (i * 37) % 256], [i \in 1..32 |-> 255]}

OutPoints == {OutPoint_new(t, v) : t \in Txids, v \in {U32(0), <<65535, 65535>>}}

\* scripts on both sides of the one-byte / three-byte length prefix
Scripts ==
    {Script_new(<<>>), Script_new(<<170, 187>>), Script_new(<<255>>),
     Script_new([i \in 1..252 |-> i]), Script_new([i \in 1..253 |-> 253])}

ShortScripts == {Script_new(<<>>), Script_new(<<170, 187>>), Script_new(<<255, 255, 255>>)}

TransactionInputs ==
    {TransactionInput_new(o, s, q) :
        o \in {OutPoint_new([i \in 1..32 |-> (i * 37) % 256], <<772, 258>>)},
        s \in ShortScripts,
        q \in {U32(0), <<65535, 65535>>}}
        \cup {TransactionInput_new(OutPoint_new([i \in 1..32 |-> 255], U32(1)),
                                   Script_new([i \in 1..253 |-> 253]), <<772, 258>>)}

TxInputs ==
    <<TransactionInput_new(OutPoint_new([i \in 1..32 |-> 0], <<65535, 65535>>),
                           Script_new(<<>>), <<65535, 65535>>),
      TransactionInput_new(OutPoint_new([i \in 1..32 |-> (i * 37) % 256], U32(1)),
                           Script_new(<<170, 187>>), U32(0))>>

\* input vectors of every length up to MaxInputs, two distinct inputs alternating
InputLists == {[i \in 1..n |-> TxInputs[((i + s) % 2) + 1]] : n \in 0..MaxInputs, s \in 0..1}

BitcoinTransactions ==
    {BitcoinTransaction_new(vl[1], ins, vl[2]) :
        vl \in {<<U32(1), U32(0)>>, <<<<772, 258>>, <<65535, 65535>>>>}, ins \in InputLists}

Values(e) ==
    CASE e = "CompactSize" -> {CompactSize_new(v) : v \in U64Values}
      [] e = "Txid" -> Txids
      [] e = "OutPoint" -> OutPoints
      [] e = "Script" -> Scripts
      [] e = "TransactionInput" -> TransactionInputs
      [] e = "BitcoinTransaction" -> BitcoinTransactions

to_bytes(e, v) ==
    CASE e = "CompactSize" -> CompactSize_to_bytes(v)
      [] e = "OutPoint" -> OutPoint_to_bytes(v)
      [] e = "Script" -> Script_to_bytes(v)
      [] e = "TransactionInput" -> TransactionInput_to_bytes(v)
      [] e = "BitcoinTransaction" -> BitcoinTransaction_to_bytes(v)

(***************************************************************************)
(* The byte slices and strings the caller hands to the decoders: an        *)
(* encoding, a prefix of one, and either followed by a hand-made tail (a   *)
(* CompactSize prefix of any width over any payload, then some content).   *)
(***************************************************************************)
Payloads ==
    {U64(0), U64(1), U64(2), U64(10),
     <<65526, 65535, 65535, 65535>>, <<65527, 65535, 65535, 65535>>,
     <<65535, 65535, 65535, 65535>>}

Prefixes ==
    {<<b>> : b \in {0, 1, 2, 253, 254, 255}}
        \cup {<<253>> \o SubSeq(to_le_bytes(p), 1, 2) : p \in Payloads}
        \cup {<<254>> \o SubSeq(to_le_bytes(p), 1, 4) : p \in Payloads}
        \cup {<<255>> \o to_le_bytes(p) : p \in Payloads}

Contents == {[i \in 1..n |-> 170 + i] : n \in 0..MaxContent}

Tails == {p \o c : p \in Prefixes, c \in Contents}

TextTails == {<<"0">>, <<"0", "0">>, <<"g", "0">>, <<"A", "F">>, <<" ">>}

(***************************************************************************)
(* The state machine.                                                      *)
(***************************************************************************)
Init ==
    /\ entity \in Entities
    /\ x \in Values(entity)
    /\ bytes = <<>>
    /\ text = <<>>
    /\ pc = "new"
    /\ result = None
    /\ version = U32(0)
    /\ input_count = CompactSize_new(U64(0))
    /\ inputs = <<>>
    /\ offset = 0

Locals == <<version, input_count, inputs, offset>>

\* the caller encodes the value
ToBytes ==
    /\ pc = "new" /\ entity # "Txid"
    /\ bytes' = to_bytes(entity, x)
    /\ pc' = "encoded"
    /\ UNCHANGED <<entity, x, text, result, Locals>>

\* the caller cuts the encoding to a proper prefix
Truncate ==
    /\ pc = "encoded" /\ entity # "Txid"
    /\ \E k \in 0..(Len(bytes) - 1) : bytes' = SubSeq(bytes, 1, k)
    /\ pc' = "cut"
    /\ UNCHANGED <<entity, x, text, result, Locals>>

\* the caller appends further bytes
Extend ==
    /\ pc \in {"encoded", "cut"} /\ entity # "Txid"
    /\ \E t \in Tails : bytes' = bytes \o t
    /\ pc' = "extended"
    /\ UNCHANGED <<entity, x, text, result, Locals>>

CompactSize_FromBytes ==
    /\ pc \in {"encoded", "cut", "extended"} /\ entity = "CompactSize"
    /\ result' = CompactSize_from_bytes(bytes)
    /\ pc' = "done"
    /\ UNCHANGED <<entity, x, bytes, text, Locals>>

OutPoint_FromBytes ==
    /\ pc \in {"encoded", "cut", "extended"} /\ entity = "OutPoint"
    /\ result' = OutPoint_from_bytes(bytes)
    /\ pc' = "done"
    /\ UNCHANGED <<entity, x, bytes, text, Locals>>

Script_FromBytes ==
    /\ pc \in {"encoded", "cut", "extended"} /\ entity = "Script"
    /\ \E overflow_checks \in BOOLEAN : result' = Script_from_bytes(bytes, overflow_checks)
    /\ pc' = "done"
    /\ UNCHANGED <<entity, x, bytes, text, Locals>>

TransactionInput_FromBytes ==
    /\ pc \in {"encoded", "cut", "extended"} /\ entity = "TransactionInput"
    /\ \E overflow_checks \in BOOLEAN :
           result' = TransactionInput_from_bytes(bytes, overflow_checks)
    /\ pc' = "done"
    /\ UNCHANGED <<entity, x, bytes, text, Locals>>

\* mutant: the offset starts one byte too far (`5 + input_count_size`)
BitcoinTransaction_from_bytes_head_offset_5 ==
    /\ pc \in {"encoded", "cut", "extended"} /\ entity = "BitcoinTransaction"
    /\ IF Len(bytes) < 4
       THEN /\ result' = Err("InsufficientBytes")
            /\ pc' = "done"
            /\ UNCHANGED Locals
       ELSE LET cs == CompactSize_from_bytes(SliceFrom(bytes, 4)) IN
            IF cs.kind # "Ok"
            THEN /\ result' = cs
                 /\ pc' = "done"
                 /\ version' = from_le_bytes(Slice(bytes, 0, 4))
                 /\ UNCHANGED <<input_count, inputs, offset>>
            ELSE /\ version' = from_le_bytes(Slice(bytes, 0, 4))
                 /\ input_count' = cs.value
                 /\ inputs' = <<>>
                 /\ offset' = 5 + cs.consumed
                 /\ pc' = "loop"
                 /\ UNCHANGED result
    /\ UNCHANGED <<entity, x, bytes, text>>

\* BitcoinTransaction::from_bytes up to the loop: version and input count
BitcoinTransaction_from_bytes_head ==
    /\ pc \in {"encoded", "cut", "extended"} /\ entity = "BitcoinTransaction"
    /\ IF Len(bytes) < 4
       THEN /\ result' = Err("InsufficientBytes")
            /\ pc' = "done"
            /\ UNCHANGED Locals
       ELSE LET cs == CompactSize_from_bytes(SliceFrom(bytes, 4)) IN
            IF cs.kind # "Ok"
            THEN /\ result' = cs
                 /\ pc' = "done"
                 /\ version' = from_le_bytes(Slice(bytes, 0, 4))
                 /\ UNCHANGED <<input_count, inputs, offset>>
            ELSE /\ version' = from_le_bytes(Slice(bytes, 0, 4))
                 /\ input_count' = cs.value
                 /\ inputs' = <<>>
                 /\ offset' = 4 + cs.consumed
                 /\ pc' = "loop"
                 /\ UNCHANGED result
    /\ UNCHANGED <<entity, x, bytes, text>>

\* mutant: the offset is not advanced past the input just decoded
BitcoinTransaction_from_bytes_loop_same_offset ==
    /\ pc = "loop"
    /\ IF Lt(U64(Len(inputs)), input_count.value)
       THEN IF offset > Len(bytes)
            THEN /\ result' = Panic("range start index out of range")
                 /\ pc' = "done"
                 /\ UNCHANGED <<inputs, offset>>
            ELSE \E overflow_checks \in BOOLEAN :
                   LET r == TransactionInput_from_bytes(SliceFrom(bytes, offset),
                                                        overflow_checks) IN
                   IF r.kind # "Ok"
                   THEN /\ result' = r
                        /\ pc' = "done"
                        /\ UNCHANGED <<inputs, offset>>
                   ELSE /\ inputs' = Append(inputs, r.value)
                        /\ UNCHANGED <<offset, pc, result>>
       ELSE /\ pc' = "lock_time"
            /\ UNCHANGED <<inputs, offset, result>>
    /\ UNCHANGED <<entity, x, bytes, text, version, input_count>>

\* one turn of `for _ in 0..input_count.value`, or its end
BitcoinTransaction_from_bytes_loop ==
    /\ pc = "loop"
    /\ IF Lt(U64(Len(inputs)), input_count.value)
       THEN IF offset > Len(bytes)
            THEN /\ result' = Panic("range start index out of range")
                 /\ pc' = "done"
                 /\ UNCHANGED <<inputs, offset>>
            ELSE \E overflow_checks \in BOOLEAN :
                   LET r == TransactionInput_from_bytes(SliceFrom(bytes, offset),
                                                        overflow_checks) IN
                   IF r.kind # "Ok"
                   THEN /\ result' = r
                        /\ pc' = "done"
                        /\ UNCHANGED <<inputs, offset>>
                   ELSE /\ inputs' = Append(inputs, r.value)
                        /\ offset' = offset + r.consumed
                        /\ UNCHANGED <<pc, result>>
       ELSE /\ pc' = "lock_time"
            /\ UNCHANGED <<inputs, offset, result>>
    /\ UNCHANGED <<entity, x, bytes, text, version, input_count>>

\* BitcoinTransaction::from_bytes after the loop: lock_time and the result
BitcoinTransaction_from_bytes_tail ==
    /\ pc = "lock_time"
    /\ result' = IF Len(bytes) < offset + 4
                 THEN Err("InsufficientBytes")
                 ELSE Ok(BitcoinTransaction_new(
                             version, inputs, from_le_bytes(Slice(bytes, offset, offset + 4))),
                         offset + 4)
    /\ pc' = "done"
    /\ UNCHANGED <<entity, x, bytes, text, Locals>>

\* the caller serializes the Txid to its string
Serialize ==
    /\ pc = "new" /\ entity = "Txid"
    /\ text' = Txid_serialize(x)
    /\ pc' = "encoded"
    /\ UNCHANGED <<entity, x, bytes, result, Locals>>

\* the caller drops the end of the string
TruncateText ==
    /\ pc = "encoded" /\ entity = "Txid"
    /\ \E k \in 0..(Len(text) - 1) : text' = SubSeq(text, 1, k)
    /\ pc' = "cut"
    /\ UNCHANGED <<entity, x, bytes, result, Locals>>

\* the caller appends characters
ExtendText ==
    /\ pc \in {"encoded", "cut"} /\ entity = "Txid"
    /\ \E t \in TextTails : text' = text \o t
    /\ pc' = "extended"
    /\ UNCHANGED <<entity, x, bytes, result, Locals>>

\* the caller replaces one character
ReplaceChar ==
    /\ pc = "encoded" /\ entity = "Txid"
    /\ \E i \in 1..Len(text), c \in {"g", "A", "F", "-"} : text' = [text EXCEPT ![i] = c]
    /\ pc' = "extended"
    /\ UNCHANGED <<entity, x, bytes, result, Locals>>

Deserialize ==
    /\ pc \in {"encoded", "cut", "extended"} /\ entity = "Txid"
    /\ result' = Txid_deserialize(text)
    /\ pc' = "done"
    /\ UNCHANGED <<entity, x, bytes, text, Locals>>

Next ==
    \/ ToBytes
    \/ Truncate
    \/ Extend
    \/ CompactSize_FromBytes
    \/ OutPoint_FromBytes
    \/ Script_FromBytes
    \/ TransactionInput_FromBytes
    \/ BitcoinTransaction_from_bytes_head
    \/ BitcoinTransaction_from_bytes_loop
    \/ BitcoinTransaction_from_bytes_tail
    \/ Serialize
    \/ TruncateText
    \/ ExtendText
    \/ ReplaceChar
    \/ Deserialize

Spec == Init /\ [][Next]_vars

(***************************************************************************)
(* Vocabulary of the properties.                                           *)
(***************************************************************************)
Binary == entity # "Txid"

\* from_bytes of `entity` has returned on the slice `bytes`
Decoded == pc = "done" /\ Binary

Encoding == to_bytes(entity, x)

IsPrefix(a, b) == Len(a) <= Len(b) /\ SubSeq(b, 1, Len(a)) = a

IsOk(r, v, n) == r.kind = "Ok" /\ r.value = v /\ r.consumed = n

IsErr(r, e) == r.kind = "Err" /\ r.err = e

(***************************************************************************)
(* C1  Round trip: from_bytes(x.to_bytes()) returns exactly                *)
(* (x, x.to_bytes().len()) for every CompactSize, OutPoint, Script,        *)
(* TransactionInput and BitcoinTransaction.                                *)
(***************************************************************************)
C1_RoundTrip ==
    (Decoded /\ bytes = Encoding) => IsOk(result, x, Len(Encoding))

\* a transaction of two inputs has been encoded and decoded back
C1_Witness ==
    /\ Decoded /\ entity = "BitcoinTransaction" /\ bytes = Encoding
    /\ Len(x.inputs) = 2 /\ result.kind = "Ok"

(***************************************************************************)
(* C2  Truncation: from_bytes of any proper prefix of x.to_bytes(), the    *)
(* empty slice included, returns Err(InsufficientBytes).                   *)
(***************************************************************************)
C2_Truncation ==
    (Decoded /\ Len(bytes) < Len(Encoding) /\ IsPrefix(bytes, Encoding))
        => IsErr(result, "InsufficientBytes")

\* a transaction with an input has lost its last byte and was refused
C2_Witness ==
    /\ Decoded /\ entity = "BitcoinTransaction" /\ Len(x.inputs) >= 1
    /\ Len(bytes) = Len(Encoding) - 1 /\ IsPrefix(bytes, Encoding)
    /\ IsErr(result, "InsufficientBytes")

(***************************************************************************)
(* C3  Script::from_bytes, once the leading CompactSize gave the declared  *)
(* length L (any u64), returns Err(InsufficientBytes) when fewer than L    *)
(* bytes remain after the prefix, and otherwise the next L bytes with      *)
(* consumed = prefix length + L; no third outcome exists.                  *)
(***************************************************************************)
C3_ScriptTwoOutcomes ==
    (Decoded /\ entity = "Script") =>
        LET cs == CompactSize_from_bytes(bytes) IN
        cs.kind = "Ok" =>
            LET L == cs.value.value
                remaining == Len(bytes) - cs.consumed
            IN  IF Lt(U64(remaining), L)
                THEN IsErr(result, "InsufficientBytes")
                ELSE IsOk(result,
                          Script_new(Slice(bytes, cs.consumed, cs.consumed + AsNat(L))),
                          cs.consumed + AsNat(L))

(***************************************************************************)
(* C4  Minimality: CompactSize::to_bytes gives 1 byte for 0..252, 0xFD and *)
(* 2 little-endian bytes for 253..65535, 0xFE and 4 bytes for              *)
(* 65536..4294967295, 0xFF and 8 bytes above; the boundaries 252, 253,     *)
(* 65535, 65536, 4294967295, 4294967296 give 1, 3, 3, 5, 5, 9 bytes.       *)
(***************************************************************************)
C4_Minimality ==
    (pc = "encoded" /\ entity = "CompactSize") =>
        LET v == x.value
            lo(w) == w % 256
            hi(w) == w \div 256
        IN  /\ (v[4] = 0 /\ v[3] = 0 /\ v[2] = 0 /\ v[1] <= 252) => bytes = <<v[1]>>
            /\ (v[4] = 0 /\ v[3] = 0 /\ v[2] = 0 /\ v[1] >= 253)
                   => bytes = <<253, lo(v[1]), hi(v[1])>>
            /\ (v[4] = 0 /\ v[3] = 0 /\ v[2] >= 1)
                   => bytes = <<254, lo(v[1]), hi(v[1]), lo(v[2]), hi(v[2])>>
            /\ (v[4] >= 1 \/ v[3] >= 1)
                   => bytes = <<255, lo(v[1]), hi(v[1]), lo(v[2]), hi(v[2]),
                                     lo(v[3]), hi(v[3]), lo(v[4]), hi(v[4])>>
            /\ v = <<252, 0, 0, 0>> => Len(bytes) = 1
            /\ v = <<253, 0, 0, 0>> => Len(bytes) = 3 /\ bytes[1] = 253
            /\ v = <<65535, 0, 0, 0>> => Len(bytes) = 3
            /\ v = <<0, 1, 0, 0>> => Len(bytes) = 5 /\ bytes[1] = 254
            /\ v = <<65535, 65535, 0, 0>> => Len(bytes) = 5
            /\ v = <<0, 0, 1, 0>> => Len(bytes) = 9 /\ bytes[1] = 255

\* 4294967296, the first value that needs the 0xFF form, has been encoded
C4_Witness ==
    /\ pc = "encoded" /\ entity = "CompactSize"
    /\ x.value = <<0, 0, 1, 0>> /\ Len(bytes) = 9

(***************************************************************************)
(* C5  Permissive decode: CompactSize::from_bytes of a slice that starts   *)
(* with 0xFD / 0xFE / 0xFF and holds at least 3 / 5 / 9 bytes succeeds     *)
(* with the little-endian value of the 2 / 4 / 8 bytes that follow and     *)
(* consumes 3 / 5 / 9, minimal or not.                                     *)
(***************************************************************************)
C5_PermissiveDecode ==
    (Decoded /\ entity = "CompactSize" /\ Len(bytes) >= 1) =>
        LET b == bytes
            w(i) == b[i] + 256 * b[i + 1]
        IN  /\ (b[1] = 253 /\ Len(b) >= 3) => IsOk(result, CompactSize_new(<<w(2), 0, 0, 0>>), 3)
            /\ (b[1] = 254 /\ Len(b) >= 5)
                   => IsOk(result, CompactSize_new(<<w(2), w(4), 0, 0>>), 5)
            /\ (b[1] = 255 /\ Len(b) >= 9)
                   => IsOk(result, CompactSize_new(<<w(2), w(4), w(6), w(8)>>), 9)

\* the value 10 under the selector 0xFF has been decoded as 10, 9 bytes consumed
C5_Witness ==
    /\ Decoded /\ entity = "CompactSize"
    /\ Len(bytes) >= 9 /\ SubSeq(bytes, 1, 9) = <<255, 10, 0, 0, 0, 0, 0, 0, 0>>
    /\ IsOk(result, CompactSize_new(U64(10)), 9)

(***************************************************************************)
(* C6  BitcoinTransaction::from_bytes succeeds exactly when the declared   *)
(* count n of inputs, each decoded from the bytes right after the previous *)
(* one, and 4 lock_time bytes after them are present; it then returns      *)
(* those n inputs in wire order and consumed = 4 + CompactSize prefix      *)
(* length + the inputs' consumed lengths + 4.  Otherwise the decode fails  *)
(* and returns no transaction.                                             *)
(***************************************************************************)
RECURSIVE InputsAt(_, _, _)
\* the first n inputs found one after the other from `start` on: are they all
\* there, what are they, and where do they end
InputsAt(b, start, n) ==
    IF n = 0 THEN [ok |-> TRUE, values |-> <<>>, end |-> start]
    ELSE LET r == TransactionInput_from_bytes(SliceFrom(b, start), TRUE) IN
         IF r.kind # "Ok" THEN [ok |-> FALSE, values |-> <<>>, end |-> start]
         ELSE LET rest == InputsAt(b, start + r.consumed, n - 1) IN
              [ok |-> rest.ok, values |-> <<r.value>> \o rest.values, end |-> rest.end]

\* the declared count, when bytes 4.. start with a CompactSize
DeclaredCount(b) == CompactSize_from_bytes(SliceFrom(b, 4))

\* the declared inputs and the lock_time are all in the slice
TxComplete(b) ==
    /\ Len(b) >= 4
    /\ DeclaredCount(b).kind = "Ok"
    /\ Le(DeclaredCount(b).value.value, U64(Len(b)))
    /\ LET ins == InputsAt(b, 4 + DeclaredCount(b).consumed,
                           AsNat(DeclaredCount(b).value.value))
       IN  ins.ok /\ Len(b) >= ins.end + 4

C6_TransactionDecode ==
    (Decoded /\ entity = "BitcoinTransaction") =>
        IF TxComplete(bytes)
        THEN LET n == AsNat(DeclaredCount(bytes).value.value)
                 ins == InputsAt(bytes, 4 + DeclaredCount(bytes).consumed, n)
             IN  /\ result.kind = "Ok"
                 /\ Len(result.value.inputs) = n
                 /\ result.value.inputs = ins.values
                 /\ result.consumed = ins.end + 4
        ELSE result.kind # "Ok"

\* two inputs were declared and decoded, and bytes follow the transaction
C6_Witness ==
    /\ Decoded /\ entity = "BitcoinTransaction"
    /\ result.kind = "Ok" /\ Len(result.value.inputs) = 2
    /\ result.value.inputs[1] # result.value.inputs[2]
    /\ result.consumed < Len(bytes)

(***************************************************************************)
(* C7  Every error a binary decoder returns is InsufficientBytes, and a    *)
(* composite decoder that fails in a sub-decoder returns that first        *)
(* failing sub-decoder's error, having decoded nothing after it.           *)
(***************************************************************************)
C7_ErrorPropagation ==
    /\ (Decoded /\ result.kind = "Err") => result.err = "InsufficientBytes"
    /\ (Decoded /\ entity = "TransactionInput") =>
           LET op == OutPoint_from_bytes(bytes) IN
           IF op.kind = "Err" THEN result = op
           ELSE \A oc \in BOOLEAN :
                    LET sc == Script_from_bytes(SliceFrom(bytes, op.consumed), oc) IN
                    sc.kind = "Err" => result = sc
    /\ (Decoded /\ entity = "BitcoinTransaction" /\ Len(bytes) >= 4) =>
           /\ DeclaredCount(bytes).kind = "Err"
                  => result = DeclaredCount(bytes) /\ inputs = <<>>
           /\ Lt(U64(Len(inputs)), input_count.value)
                  => /\ \E oc \in BOOLEAN :
                            result = TransactionInput_from_bytes(SliceFrom(bytes, offset), oc)
                     /\ result.kind # "Ok"

\* the second input of a transaction failed in its script, and the transaction
\* decode returned that error with only the first input decoded
C7_Witness ==
    /\ Decoded /\ entity = "BitcoinTransaction"
    /\ Len(inputs) = 1 /\ Lt(U64(1), input_count.value)
    /\ Len(bytes) >= offset + 36
    /\ IsErr(Script_from_bytes(SliceFrom(bytes, offset + 36), TRUE), "InsufficientBytes")
    /\ IsErr(result, "InsufficientBytes")

(***************************************************************************)
(* C8  Prefix decoding: from_bytes(x.to_bytes() ++ t) returns              *)
(* (x, x.to_bytes().len()) for every tail t.                               *)
(***************************************************************************)
C8_PrefixDecoding ==
    (Decoded /\ IsPrefix(Encoding, bytes)) => IsOk(result, x, Len(Encoding))

\* a script followed by a tail that itself starts like a CompactSize was decoded
C8_Witness ==
    /\ Decoded /\ entity = "Script" /\ IsPrefix(Encoding, bytes)
    /\ Len(bytes) > Len(Encoding) /\ bytes[Len(Encoding) + 1] = 255
    /\ Len(x.bytes) = 2 /\ IsOk(result, x, 3)

(***************************************************************************)
(* C9  Txid text form: serializing gives the 64 lowercase hex characters   *)
(* of the 32 bytes in stored order, deserializing that text gives the same *)
(* Txid back, and a string that is not valid hex or does not decode to 32  *)
(* bytes is rejected.                                                      *)
(***************************************************************************)
LowerDigit(c) == \E v \in 1..16 : HexLower[v] = c

ValidHex(s) == Len(s) % 2 = 0 /\ \A i \in 1..Len(s) : IsHexDigit(s[i])

C9_TxidText ==
    /\ (pc = "encoded" /\ entity = "Txid") =>
           /\ Len(text) = 64
           /\ \A i \in 1..64 : LowerDigit(text[i])
           /\ \A k \in 1..32 : 16 * HexVal(text[2 * k - 1]) + HexVal(text[2 * k]) = x[k]
    /\ (pc = "done" /\ entity = "Txid") =>
           /\ text = Txid_serialize(x) => (result.kind = "Ok" /\ result.value = x)
           /\ (~ValidHex(text) \/ Len(text) # 64) => result.kind = "Err"

\* a string of valid hex that decodes to 33 bytes was rejected
C9_Witness ==
    /\ pc = "done" /\ entity = "Txid"
    /\ ValidHex(text) /\ Len(text) = 66 /\ result.kind = "Err"

(***************************************************************************)
(* C10  Bounds of decoding: at the head of every loop turn and at the      *)
(* lock_time check of BitcoinTransaction::from_bytes, offset <=            *)
(* bytes.len(); and every successful from_bytes returns a consumed count n *)
(* with 1 <= n <= bytes.len().                                             *)
(***************************************************************************)
C10_Bounds ==
    /\ pc \in {"loop", "lock_time"} => offset <= Len(bytes)
    /\ (Decoded /\ result.kind = "Ok") => (1 <= result.consumed /\ result.consumed <= Len(bytes))

\* the loop stands before an input that is not there, with offset at the very end
C10_Witness ==
    /\ pc = "loop" /\ Len(inputs) = 1 /\ Lt(U64(1), input_count.value)
    /\ offset = Len(bytes)

====
